---------------------------- MODULE Spec2Model ----------------------------
(***************************************************************************)
(* Elder Ministry Priority Allocation Survey (src/App.py).                 *)
(*                                                                         *)
(* A respondent session holds an Allocation Store (session_state), edits   *)
(* it, and submits it once the grand total is exactly 100.  A submission   *)
(* is persisted by write_csv: rows are appended to the shared master file  *)
(* responses.csv and a per-submission file is written under submissions/.  *)
(* An owner panel, gated by ADMIN_KEY, previews the master file and zips   *)
(* the per-submission files.                                               *)
(*                                                                         *)
(* Text is modelled as sequences of one-character strings, files as the    *)
(* sequence of characters they hold, so that CSV formatting, CSV parsing,  *)
(* file offsets and the filename derivation are computed, not assumed.     *)
(***************************************************************************)
EXTENDS Integers, Sequences, FiniteSets, TLC

(***************************************************************************)
(* Bounds of the model.                                                    *)
(***************************************************************************)
\* The wall clock is observed over the ticks 0..MaxClock; a submission is
\* only started while now < MaxClock.
MaxClock == 2
\* At most MaxFaults file operations raise an I/O fault in one behaviour.
MaxFaults == 1

(***************************************************************************)
(* Catalog (src/App.py 25-57).  The model keeps two of the five priorities *)
(* and two of the twenty-one items, one of which contains commas.          *)
(***************************************************************************)
WorshipCentered ==
  <<"W","o","r","s","h","i","p","-","c","e","n","t","e","r","e","d">>
MissionsCentered ==
  <<"M","i","s","s","i","o","n","s","-","C","e","n","t","e","r","e","d">>
Choir ==
  <<"C","h","o","i","r">>
OutreachEvents ==
  <<"O","u","t","r","e","a","c","h"," ","e","v","e","n","t","s"," ","-"," ",
    "H","a","r","v","e","s","t"," ","P","a","r","t","y",","," ","e","t","c",".">>

ALL_ITEMS == <<Choir, OutreachEvents>>

PRIORITIES == <<WorshipCentered, MissionsCentered>>

\* PRIORITY_ITEMS = {p: ALL_ITEMS for p in PRIORITIES}
PRIORITY_ITEMS(p) == ALL_ITEMS

Range(s) == {s[i] : i \in DOMAIN s}

\* The budget every allocation must total before it can be submitted.
TARGET == 100

\* Values the number_input widgets report: integers within 0..100 (step 1);
\* the model draws them from this subset.
Amounts == {0, 50}

(***************************************************************************)
(* Text helpers.                                                           *)
(***************************************************************************)
CR == "\r"
LF == "\n"
Digits == <<"0","1","2","3","4","5","6","7","8","9">>

\* str(n) for a non-negative int.
RECURSIVE Str(_)
Str(n) == IF n < 10 THEN <<Digits[n + 1]>>
          ELSE Str(n \div 10) \o <<Digits[(n % 10) + 1]>>

\* '%0{w}d' % n
RECURSIVE Pad(_, _)
Pad(n, w) == IF w = 0 THEN <<>>
             ELSE Pad(n \div 10, w - 1) \o <<Digits[(n % 10) + 1]>>

\* int(text) for a string of decimal digits; -1 when it is not one.
DigitValue(c) ==
  IF \E d \in 1..10 : Digits[d] = c
    THEN (CHOOSE d \in 1..10 : Digits[d] = c) - 1
    ELSE -1

RECURSIVE ParseInt(_)
ParseInt(s) ==
  IF Len(s) = 0 THEN -1
  ELSE LET d == DigitValue(s[Len(s)])
       IN IF d < 0 THEN -1
          ELSE IF Len(s) = 1 THEN d
          ELSE LET hi == ParseInt(SubSeq(s, 1, Len(s) - 1))
               IN IF hi < 0 THEN -1 ELSE hi * 10 + d

\* str.replace(old, new) for one-character old and new.
Replace(s, old, new) ==
  [i \in 1..Len(s) |-> IF s[i] = old THEN new ELSE s[i]]

(***************************************************************************)
(* datetime.utcnow().isoformat()  (src/App.py 241).                        *)
(* A naive datetime is a record of its fields; isoformat() renders         *)
(* YYYY-MM-DDTHH:MM:SS and appends .ffffff only when microsecond # 0.      *)
(***************************************************************************)
IsoFormat(dt) ==
  Pad(dt.year, 4) \o <<"-">> \o Pad(dt.month, 2) \o <<"-">> \o Pad(dt.day, 2)
  \o <<"T">> \o Pad(dt.hour, 2) \o <<":">> \o Pad(dt.minute, 2)
  \o <<":">> \o Pad(dt.second, 2)
  \o (IF dt.microsecond = 0 THEN <<>> ELSE <<".">> \o Pad(dt.microsecond, 6))

\* The wall clock at tick n: n microseconds after 2025-01-01T12:59:59.999999,
\* so that the ticks cross a second, a minute and an hour boundary and pass
\* through a whole second (microsecond = 0).
ClockBase == [h |-> 12, m |-> 59, s |-> 59, us |-> 999999]

UtcAt(n) ==
  LET us == ClockBase.us + n
      s  == ClockBase.s + (us \div 1000000)
      m  == ClockBase.m + (s \div 60)
      h  == ClockBase.h + (m \div 60)
  IN [year |-> 2025, month |-> 1, day |-> 1, hour |-> h % 24,
      minute |-> m % 60, second |-> s % 60, microsecond |-> us % 1000000]

(***************************************************************************)
(* Per-submission filename (src/App.py 126-127).                           *)
(***************************************************************************)
\* Variant of TsSafe, str.replace(":", "-", 1): only the first colon is
\* replaced.  C8 must tell it from TsSafe.
TsSafeFirstOnly(timestamp_iso) ==
  LET first == IF \E i \in 1..Len(timestamp_iso) : timestamp_iso[i] = ":"
                 THEN CHOOSE i \in 1..Len(timestamp_iso) :
                        /\ timestamp_iso[i] = ":"
                        /\ \A j \in 1..(i - 1) : timestamp_iso[j] # ":"
                 ELSE 0
  IN [i \in 1..Len(timestamp_iso) |->
        IF i = first THEN "-" ELSE timestamp_iso[i]]

\* ts_safe = rows[0][0].replace(":", "-")
TsSafe(timestamp_iso) == Replace(timestamp_iso, ":", "-")

\* f"submission_{ts_safe}.csv"  (the name inside submissions/)
PerName(timestamp_iso) ==
  <<"s","u","b","m","i","s","s","i","o","n","_">>
  \o TsSafe(timestamp_iso) \o <<".","c","s","v">>

(***************************************************************************)
(* csv.writer / csv.reader, default ("excel") dialect: delimiter ",",      *)
(* quotechar '"', QUOTE_MINIMAL, doubled quotes, line terminator CR LF.    *)
(***************************************************************************)
header ==
  << <<"t","i","m","e","s","t","a","m","p">>,
     <<"p","r","i","o","r","i","t","y">>,
     <<"i","t","e","m">>,
     <<"a","m","o","u","n","t">> >>

NeedsQuote(field) ==
  \E i \in 1..Len(field) : field[i] \in {",", "\"", CR, LF}

RECURSIVE DoubleQuotes(_)
DoubleQuotes(field) ==
  IF field = <<>> THEN <<>>
  ELSE (IF Head(field) = "\"" THEN <<"\"", "\"">> ELSE <<Head(field)>>)
       \o DoubleQuotes(Tail(field))

WriteField(field) ==
  IF NeedsQuote(field)
    THEN <<"\"">> \o DoubleQuotes(field) \o <<"\"">>
    ELSE field

RECURSIVE JoinFields(_)
JoinFields(fields) ==
  IF Len(fields) = 0 THEN <<>>
  ELSE IF Len(fields) = 1 THEN WriteField(fields[1])
  ELSE WriteField(fields[1]) \o <<",">> \o JoinFields(Tail(fields))

\* The characters writer.writerow(fields) emits, fields already text.
WriteRow(fields) == JoinFields(fields) \o <<CR, LF>>

\* A row of allocations_rows has an int amount: the writer renders it str().
RowText(r) == <<r[1], r[2], r[3], Str(r[4])>>

RECURSIVE WriteRows(_)
WriteRows(rows) ==
  IF rows = <<>> THEN <<>>
  ELSE WriteRow(RowText(Head(rows))) \o WriteRows(Tail(rows))

\* csv.reader over the characters of a file: the records it yields, each a
\* sequence of fields.  The reader is followed field by field.

\* The first position from i on that holds one of stops; Len(text) + 1 if none.
FirstOf(text, i, stops) ==
  IF i > Len(text) THEN Len(text) + 1
  ELSE CHOOSE j \in i..(Len(text) + 1) :
         /\ j = Len(text) + 1 \/ text[j] \in stops
         /\ \A k \in i..(j - 1) : text[k] \notin stops

\* In a quoted field opened at position i, q holds the closing quote: a quote
\* that is not the first of a doubled pair.
ClosesQuote(text, i, q) ==
  /\ text[q] = "\""
  /\ Cardinality({k \in (i + 1)..q : text[k] = "\""}) % 2 = 1
  /\ q = Len(text) \/ text[q + 1] # "\""

CloseOf(text, i) ==
  CHOOSE q \in (i + 1)..(Len(text) + 1) :
    /\ q = Len(text) + 1 \/ ClosesQuote(text, i, q)
    /\ \A k \in (i + 1)..(q - 1) : ~ClosesQuote(text, i, k)

\* The content of a quoted field, text[lo..hi], doubled quotes read as one.
Undouble(text, lo, hi) ==
  IF \A k \in lo..hi : text[k] # "\""
    THEN SubSeq(text, lo, hi)
    ELSE LET kept == {k \in lo..hi :
                        \/ text[k] # "\""
                        \/ Cardinality({m \in lo..k : text[m] = "\""}) % 2 = 1}
             at(n) == CHOOSE k \in kept : Cardinality({m \in kept : m <= k}) = n
         IN [n \in 1..Cardinality(kept) |-> text[at(n)]]

\* The field that starts at position i: its text and the position after it.
FieldAt(text, i) ==
  IF text[i] = "\""
    THEN LET q    == CloseOf(text, i)
             stop == FirstOf(text, q + 1, {",", CR, LF})
         IN [text |-> Undouble(text, i + 1, q - 1)
                      \o SubSeq(text, q + 1, stop - 1),
             stop |-> stop]
    ELSE LET stop == FirstOf(text, i, {",", CR, LF})
         IN [text |-> SubSeq(text, i, stop - 1), stop |-> stop]

\* The position after the line terminator at position e.
AfterNewline(text, e) ==
  IF text[e] = CR /\ e < Len(text) /\ text[e + 1] = LF THEN e + 2 ELSE e + 1

RECURSIVE ReadCsvFrom(_, _, _, _)
ReadCsvFrom(text, i, row, rows) ==
  IF i > Len(text)
    THEN IF row = <<>> THEN rows ELSE Append(rows, Append(row, <<>>))
  ELSE IF text[i] \in {CR, LF}
    THEN ReadCsvFrom(text, AfterNewline(text, i), <<>>,
                     Append(rows, IF row = <<>> THEN <<>> ELSE Append(row, <<>>)))
  ELSE
    LET f == FieldAt(text, i)
        e == f.stop
    IN IF e > Len(text)
         THEN Append(rows, Append(row, f.text))
       ELSE IF text[e] = ","
         THEN ReadCsvFrom(text, e + 1, Append(row, f.text), rows)
       ELSE ReadCsvFrom(text, AfterNewline(text, e), <<>>,
                        Append(rows, Append(row, f.text)))

ReadCsv(text) == ReadCsvFrom(text, 1, <<>>, <<>>)


(***************************************************************************)
(* State.                                                                  *)
(***************************************************************************)
VARIABLES
  allocations,      \* st.session_state.allocations of each session
  submitted,        \* st.session_state.submitted of each session
  pc,               \* where each session's script run stands
  local,            \* the submit handler's locals: timestamp, rows, loop index,
                    \* and the store as it stood when submit was clicked
  ui,               \* what the last run showed the respondent
  master,           \* responses.csv: whether it exists, and its characters
  subs_dir,         \* whether the directory submissions/ exists
  submissions,      \* the files of submissions/: name -> characters
  now,              \* the wall clock, in ticks (microseconds)
  faults,           \* I/O faults raised so far
  appended,         \* rows appended to the master file so far
  accepted,         \* rows of the submissions reported successful so far
  admin_key_secret, \* secrets.get("ADMIN_KEY", None)
  entered_key,      \* the sidebar's password input
  owner_mode,       \* whether the owner panel is unlocked in this run
  panel,            \* what the owner panel rendered in the last run
  dts,              \* filename derivation: the two datetimes compared
  names             \* filename derivation: their per-submission names

vars == <<allocations, submitted, pc, local, ui, master, subs_dir, submissions,
          now, faults, appended, accepted, admin_key_secret, entered_key,
          owner_mode, panel, dts, names>>

sessionVars == <<allocations, submitted, pc, local, ui>>
diskVars    == <<master, subs_dir, submissions>>
ghostVars   == <<appended, accepted>>
adminVars   == <<admin_key_secret, entered_key, owner_mode, panel>>
nameVars    == <<dts, names>>

Sessions == {1, 2}

PrioritySet == Range(PRIORITIES)
ItemSet     == Range(ALL_ITEMS)

\* init_state: every (priority, item) amount 0
ZeroAllocation == [p \in PrioritySet |-> [item \in ItemSet |-> 0]]

NoLocal == [timestamp |-> <<>>, rows |-> <<>>, k |-> 0,
            alloc |-> ZeroAllocation, submitted |-> FALSE]

NoUi == [kind |-> "none", msg |-> "", fault |-> "none"]

NoFile == [exists |-> FALSE, data |-> <<>>]

NoPanel == [unlocked |-> FALSE, master |-> "none", zip |-> "none",
            archive |-> <<>>, footer |-> FALSE]

\* admin_key_secret = None: ADMIN_KEY is not configured, or the lookup raised.
NoSecret == [set |-> FALSE, value |-> ""]

NoNames == << <<>>, <<>> >>

(***************************************************************************)
(* Helpers of the script (src/App.py 63-99).                               *)
(***************************************************************************)
RECURSIVE SumSeq(_)
SumSeq(s) == IF s = <<>> THEN 0 ELSE Head(s) + SumSeq(Tail(s))

\* subtotals[p] = sum(allocations[p].values())
Subtotal(alloc, p) ==
  SumSeq([i \in 1..Len(PRIORITY_ITEMS(p)) |-> alloc[p][PRIORITY_ITEMS(p)[i]]])

\* total = sum(subtotals.values())
Total(alloc) ==
  SumSeq([i \in 1..Len(PRIORITIES) |-> Subtotal(alloc, PRIORITIES[i])])

\* Variant of ClearAll that leaves the amounts.  C5 must tell it from ClearAll.
ClearAllKeepsStore(alloc) == alloc

\* clear_all: every amount back to 0
ClearAll(alloc) == [p \in PrioritySet |-> [item \in ItemSet |-> 0]]

\* The rows of one priority, items in enumeration order, positive amounts only.
RECURSIVE ItemRows(_, _, _, _)
ItemRows(alloc, timestamp_iso, p, i) ==
  IF i > Len(PRIORITY_ITEMS(p)) THEN <<>>
  ELSE LET item == PRIORITY_ITEMS(p)[i]
           amt  == alloc[p][item]
       IN (IF amt # 0 /\ amt > 0
             THEN << <<timestamp_iso, p, item, amt>> >>
             ELSE <<>>)
          \o ItemRows(alloc, timestamp_iso, p, i + 1)

RECURSIVE PriorityRows(_, _, _)
PriorityRows(alloc, timestamp_iso, j) ==
  IF j > Len(PRIORITIES) THEN <<>>
  ELSE ItemRows(alloc, timestamp_iso, PRIORITIES[j], 1)
       \o PriorityRows(alloc, timestamp_iso, j + 1)

\* Variant of AllocationsRows without the test amt > 0: one row per cell.
\* C4 must tell it from AllocationsRows.
AllocationsRowsWithZeros(alloc, timestamp_iso) ==
  LET cell(n) == <<((n - 1) \div Len(ALL_ITEMS)) + 1, ((n - 1) % Len(ALL_ITEMS)) + 1>>
  IN [n \in 1..(Len(PRIORITIES) * Len(ALL_ITEMS)) |->
        <<timestamp_iso, PRIORITIES[cell(n)[1]], ALL_ITEMS[cell(n)[2]],
          alloc[PRIORITIES[cell(n)[1]]][ALL_ITEMS[cell(n)[2]]]>>]

\* allocations_rows(timestamp_iso)
AllocationsRows(alloc, timestamp_iso) == PriorityRows(alloc, timestamp_iso, 1)

\* Variant of SubmitGate, total >= 100.  C1 must tell it from SubmitGate.
SubmitGateAtLeast(total) == total >= TARGET

\* if submitted and total == 100  (the button is disabled when total != 100)
SubmitGate(total) == total = TARGET

(***************************************************************************)
(* Files.                                                                  *)
(***************************************************************************)
\* write(2) of bytes at a file offset: what lies under them is overwritten,
\* what lies beyond them stays.
WriteAt(data, offset, bytes) ==
  SubSeq(data, 1, offset) \o bytes
  \o SubSeq(data, offset + Len(bytes) + 1, Len(data))

WriteAtStart(data, bytes) == WriteAt(data, 0, bytes)

\* write(2) on a descriptor opened for append: always at the end of file.
WriteAtEnd(data, bytes) == data \o bytes

\* The messages of the I/O faults a file operation may raise (str(e)).
FaultMessages == {"No space left on device", "Permission denied"}

CanFault == faults < MaxFaults


(***************************************************************************)
(* Respondent interactions (src/App.py 172-261).  A script run that does   *)
(* not submit is one step; the submit handler is one step per file         *)
(* operation of write_csv, so that sessions sharing the disk interleave.   *)
(***************************************************************************)
Idle(s) == pc[s] = "idle"

Goto(s, label) == pc' = [pc EXCEPT ![s] = label]

Show(s, kind, msg, fault) ==
  ui' = [ui EXCEPT ![s] = [kind |-> kind, msg |-> msg, fault |-> fault]]

\* A number_input reports v for (p, item): lines 186-206.
Edit(s, p, item, v) ==
  /\ Idle(s)
  /\ allocations' = [allocations EXCEPT ![s][p][item] = v]
  /\ Show(s, "none", "", "none")
  /\ local' = [local EXCEPT ![s] = NoLocal]
  /\ UNCHANGED <<submitted, pc, diskVars, now, faults, ghostVars,
                 adminVars, nameVars>>

\* "Clear all": clear_all() then st.rerun(), lines 232-235.
ClearAllClick(s) ==
  /\ Idle(s)
  /\ allocations' = [allocations EXCEPT ![s] = ClearAll(allocations[s])]
  /\ submitted' = [submitted EXCEPT ![s] = FALSE]
  /\ Show(s, "none", "", "none")
  /\ local' = [local EXCEPT ![s] = NoLocal]
  /\ UNCHANGED <<pc, diskVars, now, faults, ghostVars, adminVars,
                 nameVars>>

\* "Submit allocations" is invoked: lines 237-246, up to the call of write_csv.
SubmitClick(s) ==
  /\ Idle(s)
  /\ LET total         == Total(allocations[s])
         timestamp_iso == IsoFormat(UtcAt(now))
         rows          == AllocationsRows(allocations[s], timestamp_iso)
     IN IF SubmitGate(total)
          THEN /\ now < MaxClock
               /\ local' = [local EXCEPT ![s] =
                              [timestamp |-> timestamp_iso, rows |-> rows, k |-> 1,
                               alloc |-> allocations[s],
                               submitted |-> submitted[s]]]
               /\ IF rows = <<>>
                    THEN /\ Show(s, "no_allocations", "", "none")
                         /\ UNCHANGED pc
                    ELSE /\ Show(s, "saving", "", "none")
                         /\ Goto(s, "makedirs")
          ELSE /\ Show(s, "refused", "", "none")
               /\ local' = [local EXCEPT ![s] = NoLocal]
               /\ UNCHANGED pc
  /\ UNCHANGED <<allocations, submitted, diskVars, now, faults, ghostVars,
                 adminVars, nameVars>>

\* write_csv returned (False, str(e)): line 261.
ReportError(s, e) ==
  /\ Show(s, "error", e, e)
  /\ Goto(s, "idle")
  /\ faults' = faults + 1
  /\ UNCHANGED <<allocations, submitted, local>>

\* os.makedirs("submissions", exist_ok=True), line 107: before the try.
\* The clock moves on while the handler does I/O.
MakeDirs(s) ==
  /\ pc[s] = "makedirs"
  /\ now' = IF now < MaxClock THEN now + 1 ELSE now
  /\ \/ /\ subs_dir' = TRUE
        /\ Goto(s, "create")
        /\ UNCHANGED <<allocations, submitted, local, ui, faults>>
     \/ \E e \in FaultMessages :
          /\ CanFault
          /\ Show(s, "exception", "", e)
          /\ Goto(s, "idle")
          /\ faults' = faults + 1
          /\ UNCHANGED <<allocations, submitted, local, subs_dir>>
  /\ UNCHANGED <<master, submissions, ghostVars, adminVars, nameVars>>

\* open("responses.csv", "x"), line 113; FileExistsError is passed over.
CreateMaster(s) ==
  /\ pc[s] = "create"
  /\ \/ /\ ~master.exists
        /\ master' = [exists |-> TRUE, data |-> <<>>]
        /\ Goto(s, "header")
        /\ UNCHANGED <<allocations, submitted, local, ui, faults>>
     \/ /\ master.exists
        /\ Goto(s, "append_open")
        /\ UNCHANGED <<allocations, submitted, local, ui, faults, master>>
     \/ \E e \in FaultMessages :
          /\ CanFault
          /\ ReportError(s, e)
          /\ UNCHANGED master
  /\ UNCHANGED <<subs_dir, submissions, now, ghostVars, adminVars, nameVars>>

\* writer.writerow(header) and the close of the "x" file, lines 114-115: the
\* buffered header reaches the file at the descriptor's offset, 0.
WriteMasterHeader(s) ==
  /\ pc[s] = "header"
  /\ \/ /\ master' = [master EXCEPT !.data = WriteAtStart(@, WriteRow(header))]
        /\ Goto(s, "append_open")
        /\ UNCHANGED <<allocations, submitted, local, ui, faults>>
     \/ \E e \in FaultMessages :
          /\ CanFault
          /\ ReportError(s, e)
          /\ UNCHANGED master
  /\ UNCHANGED <<subs_dir, submissions, now, ghostVars, adminVars, nameVars>>

\* open("responses.csv", "a"), line 120.
OpenMasterAppend(s) ==
  /\ pc[s] = "append_open"
  /\ \/ /\ master' = [master EXCEPT !.exists = TRUE]
        /\ Goto(s, "append_row")
        /\ UNCHANGED <<allocations, submitted, local, ui, faults>>
     \/ \E e \in FaultMessages :
          /\ CanFault
          /\ ReportError(s, e)
          /\ UNCHANGED master
  /\ UNCHANGED <<subs_dir, submissions, now, ghostVars, adminVars, nameVars>>

\* for r in rows: writer.writerow(r), lines 122-123, one row per step.
AppendMasterRow(s) ==
  /\ pc[s] = "append_row"
  /\ \/ /\ master' = [master EXCEPT
                        !.data = WriteAtEnd(@, WriteRow(RowText(local[s].rows[local[s].k])))]
        /\ appended' = appended + 1
        /\ IF local[s].k < Len(local[s].rows)
             THEN /\ local' = [local EXCEPT ![s].k = @ + 1]
                  /\ UNCHANGED pc
             ELSE /\ Goto(s, "per_open")
                  /\ UNCHANGED local
        /\ UNCHANGED <<allocations, submitted, ui, faults>>
     \/ \E e \in FaultMessages :
          /\ CanFault
          /\ ReportError(s, e)
          /\ UNCHANGED <<master, appended>>
  /\ UNCHANGED <<subs_dir, submissions, now, accepted, adminVars, nameVars>>

\* open(per_path, "w"), line 128: creates the file or truncates it.
OpenPerFile(s) ==
  /\ pc[s] = "per_open"
  /\ \/ /\ submissions' =
             [n \in DOMAIN submissions \cup {PerName(local[s].rows[1][1])} |->
                IF n = PerName(local[s].rows[1][1]) THEN <<>> ELSE submissions[n]]
        /\ Goto(s, "per_write")
        /\ UNCHANGED <<allocations, submitted, local, ui, faults>>
     \/ \E e \in FaultMessages :
          /\ CanFault
          /\ ReportError(s, e)
          /\ UNCHANGED submissions
  /\ UNCHANGED <<master, subs_dir, now, ghostVars, adminVars, nameVars>>

\* writer.writerow(header); writer.writerows(rows) and the close, lines
\* 129-131, then the rest of the handler on (True, None), lines 247-259.
WritePerFile(s) ==
  /\ pc[s] = "per_write"
  /\ \/ /\ submissions' =
             [submissions EXCEPT ![PerName(local[s].rows[1][1])] =
                WriteAtStart(@, WriteRow(header) \o WriteRows(local[s].rows))]
        /\ Show(s, "success", "", "none")
        /\ allocations' = [allocations EXCEPT ![s] = ClearAll(allocations[s])]
        /\ submitted' = [submitted EXCEPT ![s] = FALSE]
        /\ accepted' = accepted + Len(local[s].rows)
        /\ Goto(s, "idle")
        /\ UNCHANGED <<local, faults>>
     \/ \E e \in FaultMessages :
          /\ CanFault
          /\ ReportError(s, e)
          /\ UNCHANGED <<submissions, accepted>>
  /\ UNCHANGED <<master, subs_dir, now, appended, adminVars, nameVars>>

\* Time passes.
Tick ==
  /\ now < MaxClock
  /\ now' = now + 1
  /\ UNCHANGED <<sessionVars, diskVars, faults, ghostVars, adminVars, nameVars>>

(***************************************************************************)
(* One respondent session.                                                 *)
(***************************************************************************)
Init ==
  /\ allocations = [s \in Sessions |-> ZeroAllocation]
  /\ submitted = [s \in Sessions |-> FALSE]
  /\ pc = [s \in Sessions |-> "idle"]
  /\ local = [s \in Sessions |-> NoLocal]
  /\ ui = [s \in Sessions |-> NoUi]
  /\ master = NoFile
  /\ subs_dir = FALSE
  /\ submissions = <<>>
  /\ now = 0
  /\ faults = 0
  /\ appended = 0
  /\ accepted = 0
  /\ admin_key_secret = NoSecret
  /\ entered_key = ""
  /\ owner_mode = FALSE
  /\ panel = NoPanel
  /\ dts = <<>>
  /\ names = NoNames

Next ==
  \/ \E p \in PrioritySet, item \in ItemSet, v \in Amounts : Edit(1, p, item, v)
  \/ ClearAllClick(1)
  \/ SubmitClick(1)
  \/ MakeDirs(1)
  \/ CreateMaster(1)
  \/ WriteMasterHeader(1)
  \/ OpenMasterAppend(1)
  \/ AppendMasterRow(1)
  \/ OpenPerFile(1)
  \/ WritePerFile(1)

Spec == Init /\ [][Next]_vars


(***************************************************************************)
(* Owner tools (src/App.py 155-167, 312-358).                              *)
(***************************************************************************)
\* A configured ADMIN_KEY.
Secret(v) == [set |-> TRUE, value |-> v]

AdminSecrets == {NoSecret, Secret(""), Secret("key")}

\* What may be typed into the password input.
EnteredKeys == {"", "key", "Key", "key "}

\* Variant of OwnerMode without bool(admin_key_secret).  C6 must tell it
\* from OwnerMode.
OwnerModeAnyEqualKey(secret, entered) == secret.set /\ entered = secret.value

\* owner_mode = bool(admin_key_secret) and entered_key == admin_key_secret
OwnerMode(secret, entered) ==
  /\ secret.set /\ secret.value # ""
  /\ secret.set /\ entered = secret.value

\* pd.read_csv raises on a file without columns and on a record with more
\* fields than the first one.
MalformedCsv(data) ==
  LET records == ReadCsv(data)
  IN \/ records = <<>>
     \/ \E i \in 1..Len(records) : Len(records[i]) > Len(records[1])

IsPrefix(a, b) == Len(a) <= Len(b) /\ SubSeq(b, 1, Len(a)) = a
IsSuffix(a, b) == Len(a) <= Len(b) /\ SubSeq(b, Len(b) - Len(a) + 1, Len(b)) = a

\* subs_dir.glob("submission_*.csv")
Glob(files) ==
  {n \in DOMAIN files :
     /\ IsPrefix(<<"s","u","b","m","i","s","s","i","o","n","_">>, n)
     /\ IsSuffix(<<".","c","s","v">>, n)}

\* for fp in files: zf.write(fp, arcname=fp.name)
ZipOf(files) == [n \in Glob(files) |-> files[n]]

\* The master preview, lines 319-338; read_fault: reading the file raises.
MasterSection(read_fault) ==
  IF ~master.exists THEN "info"
  ELSE IF read_fault \/ MalformedCsv(master.data) THEN "warning"
  ELSE "preview"

\* A script run of the owner's session with key entered in the sidebar:
\* lines 162-167 and 312-358.  The zip section has no handler of its own: a
\* file that cannot be read while it is bundled ends the run.
KeyRun(key, read_fault, zip_fault) ==
  /\ entered_key' = key
  /\ owner_mode' = OwnerMode(admin_key_secret, key)
  /\ panel' =
       IF ~OwnerMode(admin_key_secret, key) THEN NoPanel
       ELSE IF ~subs_dir
         THEN [unlocked |-> TRUE, master |-> MasterSection(read_fault),
               zip |-> "none", archive |-> <<>>, footer |-> TRUE]
       ELSE IF Glob(submissions) = {}
         THEN [unlocked |-> TRUE, master |-> MasterSection(read_fault),
               zip |-> "empty", archive |-> <<>>, footer |-> TRUE]
       ELSE IF zip_fault
         THEN [unlocked |-> TRUE, master |-> MasterSection(read_fault),
               zip |-> "exception", archive |-> <<>>, footer |-> FALSE]
       ELSE [unlocked |-> TRUE, master |-> MasterSection(read_fault),
             zip |-> "download", archive |-> ZipOf(submissions), footer |-> TRUE]
  /\ UNCHANGED <<sessionVars, diskVars, now, faults, ghostVars,
                 admin_key_secret, nameVars>>

\* The allocations a respondent can submit.
Allocations == [PrioritySet -> [ItemSet -> Amounts]]
Submittable == {a \in Allocations : Total(a) = TARGET}

\* One respondent, about to submit, and the owner's session.
InitAdmin ==
  /\ allocations \in [Sessions -> Submittable \cup {ZeroAllocation}]
  /\ allocations[1] \in Submittable
  /\ allocations[2] = ZeroAllocation
  /\ submitted = [s \in Sessions |-> FALSE]
  /\ pc = [s \in Sessions |-> "idle"]
  /\ local = [s \in Sessions |-> NoLocal]
  /\ ui = [s \in Sessions |-> NoUi]
  /\ master = NoFile
  /\ subs_dir = FALSE
  /\ submissions = <<>>
  /\ now = 0
  /\ faults = 0
  /\ appended = 0
  /\ accepted = 0
  /\ admin_key_secret \in AdminSecrets
  /\ entered_key = ""
  /\ owner_mode = FALSE
  /\ panel = NoPanel
  /\ dts = <<>>
  /\ names = NoNames

NextAdmin ==
  \/ SubmitClick(1)
  \/ MakeDirs(1)
  \/ CreateMaster(1)
  \/ WriteMasterHeader(1)
  \/ OpenMasterAppend(1)
  \/ AppendMasterRow(1)
  \/ OpenPerFile(1)
  \/ WritePerFile(1)
  \/ \E key \in EnteredKeys, read_fault \in BOOLEAN, zip_fault \in BOOLEAN :
       KeyRun(key, read_fault, zip_fault)

SpecAdmin == InitAdmin /\ [][NextAdmin]_vars

(***************************************************************************)
(* Two respondent sessions submitting against the same disk.               *)
(***************************************************************************)
InitConc ==
  /\ allocations \in [Sessions -> Submittable]
  /\ submitted = [s \in Sessions |-> FALSE]
  /\ pc = [s \in Sessions |-> "idle"]
  /\ local = [s \in Sessions |-> NoLocal]
  /\ ui = [s \in Sessions |-> NoUi]
  /\ master = NoFile
  /\ subs_dir = FALSE
  /\ submissions = <<>>
  /\ now = 0
  /\ faults = 0
  /\ appended = 0
  /\ accepted = 0
  /\ admin_key_secret = NoSecret
  /\ entered_key = ""
  /\ owner_mode = FALSE
  /\ panel = NoPanel
  /\ dts = <<>>
  /\ names = NoNames

NextConc ==
  \/ \E s \in Sessions : SubmitClick(s)
  \/ \E s \in Sessions : MakeDirs(s)
  \/ \E s \in Sessions : CreateMaster(s)
  \/ \E s \in Sessions : WriteMasterHeader(s)
  \/ \E s \in Sessions : OpenMasterAppend(s)
  \/ \E s \in Sessions : AppendMasterRow(s)
  \/ \E s \in Sessions : OpenPerFile(s)
  \/ \E s \in Sessions : WritePerFile(s)
  \/ Tick

SpecConc == InitConc /\ [][NextConc]_vars

(***************************************************************************)
(* The filename derivation on its own: two datetimes, their names.         *)
(***************************************************************************)
DateTimes ==
  [year : {2025}, month : {1, 12}, day : {1, 31}, hour : {0, 23},
   minute : {0, 59}, second : {0, 59}, microsecond : {0, 1, 999999}]

InitName ==
  /\ allocations = [s \in Sessions |-> ZeroAllocation]
  /\ submitted = [s \in Sessions |-> FALSE]
  /\ pc = [s \in Sessions |-> "idle"]
  /\ local = [s \in Sessions |-> NoLocal]
  /\ ui = [s \in Sessions |-> NoUi]
  /\ master = NoFile
  /\ subs_dir = FALSE
  /\ submissions = <<>>
  /\ now = 0
  /\ faults = 0
  /\ appended = 0
  /\ accepted = 0
  /\ admin_key_secret = NoSecret
  /\ entered_key = ""
  /\ owner_mode = FALSE
  /\ panel = NoPanel
  /\ dts \in DateTimes \X DateTimes
  /\ names = NoNames

\* timestamp = datetime.utcnow().isoformat(); per_path from rows[0][0]
DeriveNames ==
  /\ names = NoNames
  /\ names' = <<PerName(IsoFormat(dts[1])), PerName(IsoFormat(dts[2]))>>
  /\ UNCHANGED <<sessionVars, diskVars, now, faults, ghostVars, adminVars, dts>>

NextName == DeriveNames

SpecName == InitName /\ [][NextName]_vars


(***************************************************************************)
(* Properties.                                                             *)
(***************************************************************************)
AllIdle == \A s \in Sessions : pc[s] = "idle"

HeaderCount(records) ==
  Cardinality({i \in 1..Len(records) : records[i] = header})

DataRowCount(records) == Len(records) - HeaderCount(records)

\* The store, the flag and everything persisted are left as they are.
NothingPersistedOrChanged(s) ==
  /\ allocations'[s] = allocations[s]
  /\ submitted'[s] = submitted[s]
  /\ UNCHANGED <<master, subs_dir, submissions, appended, accepted>>

\* C1: a submit invoked while the grand total is not exactly 100 (below or
\* above) is a no-op: no submission record is produced, no handler is
\* started, neither the master file nor a per-submission file is created or
\* written, and every amount and the submitted flag are unchanged.
C1_SubmitIsNoOpUnlessTotal100 ==
  [][\A s \in Sessions :
       (SubmitClick(s) /\ Total(allocations[s]) # TARGET)
         => /\ NothingPersistedOrChanged(s)
            /\ pc'[s] = "idle"
            /\ local'[s].rows = <<>>]_vars

\* C1, reached: submit has been refused on an over-budget store while the
\* master file already exists.
C1_Witness ==
  /\ ui[1].kind = "refused"
  /\ Total(allocations[1]) > TARGET
  /\ master.exists

\* C2: once all handlers have returned, the master file holds the header row
\* exactly once and as many data rows as the successful submissions had
\* positive-amount entries.
C2_MasterRowsAreSuccessfulRows ==
  (master.exists /\ AllIdle)
    => LET records == ReadCsv(master.data)
       IN /\ HeaderCount(records) = 1
          /\ DataRowCount(records) = accepted

\* C3: an I/O fault raised while a submission is persisted is reported to the
\* respondent as an error carrying the fault's message, never escapes the
\* handler, and leaves the store as it was when submit was clicked.
C3_FaultIsReportedAndStoreKept ==
  \A s \in Sessions :
    ui[s].fault # "none"
      => /\ ui[s].kind = "error"
         /\ ui[s].msg = ui[s].fault
         /\ allocations[s] = local[s].alloc
         /\ submitted[s] = local[s].submitted

\* Position of a (priority, item) cell in enumeration order; 0 if it is none.
CellIndex(p, item) ==
  IF \E j \in 1..Len(PRIORITIES), i \in 1..Len(ALL_ITEMS) :
       PRIORITIES[j] = p /\ ALL_ITEMS[i] = item
    THEN LET c == CHOOSE c \in (1..Len(PRIORITIES)) \X (1..Len(ALL_ITEMS)) :
                    PRIORITIES[c[1]] = p /\ ALL_ITEMS[c[2]] = item
         IN (c[1] - 1) * Len(ALL_ITEMS) + c[2]
    ELSE 0

PositiveCells(alloc) ==
  {c \in PrioritySet \X ItemSet : alloc[c[1]][c[2]] > 0}

\* The records of a per-submission file are the header, then one record per
\* positive cell of alloc, in enumeration order, each with timestamp_iso.
HoldsExactly(records, alloc, timestamp_iso) ==
  /\ Len(records) = 1 + Cardinality(PositiveCells(alloc))
  /\ records[1] = header
  /\ \A n \in 2..Len(records) :
       /\ Len(records[n]) = 4
       /\ records[n][1] = timestamp_iso
       /\ <<records[n][2], records[n][3]>> \in PositiveCells(alloc)
       /\ ParseInt(records[n][4]) = alloc[records[n][2]][records[n][3]]
       /\ n > 2 => CellIndex(records[n - 1][2], records[n - 1][3])
                     < CellIndex(records[n][2], records[n][3])

\* C4: the per-submission file of a successful submit, read back, holds the
\* header followed by exactly the (priority, item, amount) entries that were
\* positive when submit was clicked, in enumeration order, every row with the
\* submission's timestamp; whatever the master file holds.
C4_PerFileRoundTrip ==
  \A s \in Sessions :
    ui[s].kind = "success"
      => /\ PerName(local[s].timestamp) \in DOMAIN submissions
         /\ HoldsExactly(ReadCsv(submissions[PerName(local[s].timestamp)]),
                         local[s].alloc, local[s].timestamp)

\* C4, reached: a successful submit of an allocation with a zero cell and an
\* item that needs quoting, while the master file holds more than this
\* submission's rows.
C4_Witness ==
  /\ ui[1].kind = "success"
  /\ local[1].alloc[WorshipCentered][OutreachEvents] = 50
  /\ local[1].alloc[WorshipCentered][Choir] = 0
  /\ appended > Len(local[1].rows)

\* C5: when a successful submit finishes, every amount of the store is 0.
C5_StoreZeroAfterSuccess ==
  \A s \in Sessions :
    ui[s].kind = "success"
      => /\ pc[s] = "idle"
         /\ \A p \in PrioritySet, item \in ItemSet : allocations[s][p][item] = 0

\* C5, reached: a submit of a store that totalled 100 has succeeded.
C5_Witness ==
  /\ ui[1].kind = "success"
  /\ Total(local[1].alloc) = TARGET
  /\ accepted > 0

\* C6: with no admin secret configured (unset or empty) the panel is locked
\* whatever key is entered; with one configured it is unlocked exactly when
\* the entered key equals the secret.
C6_PanelFailsClosed ==
  LET configured == admin_key_secret.set /\ admin_key_secret.value # ""
  IN /\ owner_mode = panel.unlocked
     /\ ~configured => ~panel.unlocked
     /\ configured => (panel.unlocked <=> entered_key = admin_key_secret.value)

\* C6, reached: the panel is unlocked by the configured key.
C6_Witness ==
  /\ panel.unlocked
  /\ admin_key_secret.set
  /\ entered_key = admin_key_secret.value

\* C7: in the unlocked panel no read fault ends the run: the master section
\* and the zip section render or warn, and the rest of the panel is shown.
C7_ReadFaultsAreWarnings ==
  panel.unlocked
    => /\ panel.master \in {"info", "preview", "warning"}
       /\ panel.zip \in {"none", "empty", "download", "warning"}
       /\ panel.footer

\* C8: the per-submission filename never contains a colon, and two distinct
\* submission timestamps never get the same filename.
C8_FilenameSafeAndInjective ==
  names # NoNames
    => /\ \A n \in 1..2 : \A i \in 1..Len(names[n]) : names[n][i] # ":"
       /\ IsoFormat(dts[1]) # IsoFormat(dts[2]) => names[1] # names[2]

\* C8, reached: names derived for a whole-second timestamp and for one that
\* differs from it in the microsecond only.
C8_Witness ==
  /\ names # NoNames
  /\ dts[1].microsecond = 0
  /\ dts[2] = [dts[1] EXCEPT !.microsecond = 1]

\* What a per-submission file of session s holds when read back.
OwnRecords(s) ==
  <<header>> \o [i \in 1..Len(local[s].rows) |-> RowText(local[s].rows[i])]

\* C9: once all handlers have returned, every successful submission has its
\* own per-submission file, distinct from every other submission's, holding
\* exactly its rows, and the archive holds it under the same name.
C9_OneFilePerSubmission ==
  AllIdle
    => \A s \in Sessions :
         ui[s].kind = "success"
           => LET name == PerName(local[s].timestamp)
              IN /\ name \in DOMAIN submissions
                 /\ ReadCsv(submissions[name]) = OwnRecords(s)
                 /\ name \in DOMAIN ZipOf(submissions)
                 /\ ZipOf(submissions)[name] = submissions[name]
                 /\ \A t \in Sessions \ {s} :
                      ui[t].kind = "success"
                        => PerName(local[t].timestamp) # name

\* C10: when two sessions have both submitted successfully, however their
\* file operations interleaved, the master file holds the header exactly once
\* and as its first row, and every row either of them appended, unaltered.
C10_MasterAppendOnly ==
  (AllIdle /\ \A s \in Sessions : ui[s].kind = "success")
    => LET records == ReadCsv(master.data)
       IN /\ records # <<>>
          /\ records[1] = header
          /\ HeaderCount(records) = 1
          /\ DataRowCount(records) = appended
          /\ \A s \in Sessions : \A i \in 1..Len(local[s].rows) :
               \E n \in 1..Len(records) : records[n] = RowText(local[s].rows[i])

=============================================================================
